---- MODULE Spec2Model ----
(***************************************************************************)
(* Model of ex-libris: the paper collection and filter selection of App,   *)
(* the add-paper modal (AddPaperModal.handleSubmit and its outstanding     *)
(* analysis calls) and the response parsing of the analysis service.       *)
(*                                                                         *)
(* JavaScript strings are sequences of one-character strings, so that      *)
(* toLowerCase, trim and includes are computed.  A JavaScript object is a  *)
(* function whose DOMAIN is the set of keys it has; a key whose value is   *)
(* undefined is modelled as an absent key.                                 *)
(***************************************************************************)
EXTENDS Integers, Sequences, FiniteSets, TLC

VARIABLES
    papers,            \* App: useState<Paper[]>, newest insertion first
    selectedTopic,     \* App: string | null
    selectedSubTopic,  \* App: string | null
    selectedTag,       \* App: string | null
    searchQuery,       \* App: string
    isAddModalOpen,    \* App: boolean
    mode,              \* AddPaperModal: 'url' | 'doi' | 'pdf'
    inputValue,        \* AddPaperModal: string
    loading,           \* AddPaperModal: boolean
    error,             \* AddPaperModal: string | null
    fileChosen,        \* AddPaperModal: fileInputRef.current?.files?.[0] exists
    calls,             \* handleSubmit invocations suspended at their await
    nextId,            \* source of crypto.randomUUID(): next unused id
    now,               \* Date.now()
    lastOp,            \* history: the handler that ran last, with its inputs
    topicsMemo,        \* App: the value useMemo holds for topics
    subTopicsMemo,     \* App: the value useMemo holds for subTopics
    filteredPapersMemo,\* App: the value useMemo holds for filteredPapers
    text,              \* the response text received from the service so far
    parsed             \* the outcome of parseResponse(text), once it ran

vars == <<papers, selectedTopic, selectedSubTopic, selectedTag, searchQuery,
          isAddModalOpen, mode, inputValue, loading, error, fileChosen,
          calls, nextId, now, lastOp, topicsMemo, subTopicsMemo,
          filteredPapersMemo, text, parsed>>

appVars == <<papers, selectedTopic, selectedSubTopic, selectedTag, searchQuery,
             isAddModalOpen, mode, inputValue, loading, error, fileChosen,
             calls, nextId, now, lastOp, topicsMemo, subTopicsMemo,
             filteredPapersMemo>>

parseVars == <<text, parsed>>

(***************************************************************************)
(* Bounds of the model.                                                    *)
(***************************************************************************)
MaxPapers == 2      \* papers held by the collection
MaxCalls == 2       \* analysis calls outstanding at once
MaxIds == 2         \* ids handed out by crypto.randomUUID()
MaxTextLen == 5     \* tokens of a response text
MaxShelf == 3       \* papers of a collection the views are computed over
MaxStored == 2      \* records of a stored collection that is loaded

(***************************************************************************)
(* JavaScript values.                                                      *)
(***************************************************************************)
\* null in a string | null slot: a sequence no string equals.
NULL == <<"null">>

\* The empty string ''.
EMPTY == <<>>

Has(o, k) == k \in DOMAIN o

\* JavaScript truthiness of o.k for a string-valued (or absent) field.
Truthy(o, k) == Has(o, k) /\ o[k] # EMPTY

\* String.prototype.toLowerCase, one character.
LowerChar(c) ==
    CASE c = "A" -> "a"
      [] c = "B" -> "b"
      [] c = "T" -> "t"
      [] c = "U" -> "u"
      [] c = "S" -> "s"
      [] c = "R" -> "r"
      [] OTHER -> c

toLowerCase(s) == [i \in DOMAIN s |-> LowerChar(s[i])]

IsWhiteSpace(c) == c = " "

RECURSIVE TrimStart(_)
TrimStart(s) ==
    IF s # EMPTY /\ IsWhiteSpace(Head(s)) THEN TrimStart(Tail(s)) ELSE s

RECURSIVE TrimEnd(_)
TrimEnd(s) ==
    IF s # EMPTY /\ IsWhiteSpace(s[Len(s)])
    THEN TrimEnd(SubSeq(s, 1, Len(s) - 1))
    ELSE s

\* String.prototype.trim
trim(s) == TrimEnd(TrimStart(s))

\* String.prototype.includes: q occurs in s as a contiguous substring.
includes(s, q) ==
    \E i \in 0..(Len(s) - Len(q)) : SubSeq(s, i + 1, i + Len(q)) = q

\* Array.prototype.includes
arrayIncludes(a, x) == \E i \in DOMAIN a : a[i] = x

(***************************************************************************)
(* Response texts.  A text is a sequence of tokens: the fence markers, the *)
(* braces, white space, prose, a JSON scalar, and JSON object members.     *)
(* A member token stands for one key with its value and separating comma.  *)
(***************************************************************************)
\* Three backquotes followed by json: the opening fence of a JSON block.
FenceJson == "[fence-json]"
\* Three backquotes alone.
Fence == "[fence]"
LBrace == "{"
RBrace == "}"
Space == " "
Prose == "x"
Scalar == "7"

\* The member tokens and the key and value each stands for.
MemberTable ==
    [ mTitleA    |-> [k |-> "title", v |-> <<"A">>],
      mTitleSpA  |-> [k |-> "title", v |-> <<" ", "a">>],
      mTitleB    |-> [k |-> "title", v |-> <<"b">>],
      mTitleNone |-> [k |-> "title", v |-> EMPTY],
      mSummary   |-> [k |-> "summary", v |-> <<"s">>],
      mAuthors   |-> [k |-> "authors", v |-> << <<"x">> >>],
      mTopicT    |-> [k |-> "topic", v |-> <<"T">>],
      mTopicU    |-> [k |-> "topic", v |-> <<"U">>],
      mSubS      |-> [k |-> "subTopic", v |-> <<"S">>],
      mSubR      |-> [k |-> "subTopic", v |-> <<"R">>],
      mTagsG     |-> [k |-> "tags", v |-> << <<"g">> >>],
      mTagsGH    |-> [k |-> "tags", v |-> << <<"g">>, <<"h">> >>],
      mTagsNone  |-> [k |-> "tags", v |-> <<>>],
      mJournal   |-> [k |-> "journal", v |-> <<"j">>],
      mDate      |-> [k |-> "publishDate", v |-> <<"d">>],
      mFoundUrl  |-> [k |-> "foundUrl", v |-> <<"v">>] ]

MemberTokens == DOMAIN MemberTable

IsSpaceToken(t) == t = Space

\* A token that starts with three backquotes: the closing fence, or another
\* opening fence.
IsFenceStart(t) == t \in {Fence, FenceJson}

\* String.prototype.trim on a text.
RECURSIVE TextTrimStart(_)
TextTrimStart(s) ==
    IF s # <<>> /\ IsSpaceToken(Head(s)) THEN TextTrimStart(Tail(s)) ELSE s

RECURSIVE TextTrimEnd(_)
TextTrimEnd(s) ==
    IF s # <<>> /\ IsSpaceToken(s[Len(s)])
    THEN TextTrimEnd(SubSeq(s, 1, Len(s) - 1))
    ELSE s

TextTrim(s) == TextTrimEnd(TextTrimStart(s))

\* The tokens of s that are not white space (JSON ignores white space
\* between its tokens).
RECURSIVE Significant(_)
Significant(s) ==
    IF s = <<>> THEN <<>>
    ELSE IF IsSpaceToken(Head(s)) THEN Significant(Tail(s))
    ELSE <<Head(s)>> \o Significant(Tail(s))

\* The object built from member tokens, a later key overriding an earlier.
RECURSIVE ObjectOf(_)
ObjectOf(ms) ==
    IF ms = <<>> THEN <<>>
    ELSE LET rest == ObjectOf(SubSeq(ms, 1, Len(ms) - 1))
             m == MemberTable[ms[Len(ms)]]
         IN [key \in (DOMAIN rest) \cup {m.k} |->
                IF key = m.k THEN m.v ELSE rest[key]]

\* JSON.parse: [ok, kind, value]; kind is "object" or "scalar".
JSONparse(s) ==
    LET sig == Significant(s)
        n == Len(sig)
    IN  IF n >= 2 /\ sig[1] = LBrace /\ sig[n] = RBrace
           /\ \A i \in 2..(n - 1) : sig[i] \in MemberTokens
        THEN [ok |-> TRUE, kind |-> "object",
              value |-> ObjectOf(SubSeq(sig, 2, n - 1))]
        ELSE IF n = 1 /\ sig[1] = Scalar
        THEN [ok |-> TRUE, kind |-> "scalar", value |-> <<>>]
        ELSE [ok |-> FALSE, kind |-> "none", value |-> <<>>]

(***************************************************************************)
(* Failure messages (the message of a thrown Error).                       *)
(***************************************************************************)
NoMessage == ""
MsgNoResponse == "No response received from AI service."
MsgNoTitle == "Could not extract paper title from AI response."
MsgParseFailed ==
    "Failed to parse AI response. The model did not return valid JSON."
MsgSyntaxError == "SyntaxError: Unexpected token"
MsgRecitation ==
    "The AI service blocked the response due to copyright (RECITATION)."
MsgBlocked == "The AI service blocked the response (Reason: SAFETY)."
MsgEmptyUrl == "The AI service returned an empty response."
MsgAnalyzeFailedUrl == "Failed to analyze paper. Please check the URL or try again."
MsgBlockedPdf == "The AI service blocked the response (Reason: SAFETY)"
MsgBlockedPdfRecitation == "The AI service blocked the response (Reason: RECITATION)"
MsgEmptyPdf == "The AI service returned an empty response for the PDF."
MsgAnalyzeFailedPdf == "Failed to analyze PDF."
MsgPdfTooLarge == "PDF file is too large. Please try a smaller file (under 10MB)."
MsgPdfParseFailed == "AI response parsing failed. Please try again."
MsgNetwork == "fetch failed"
MsgPayloadTooLarge == "413 Request Entity Too Large"
MsgConflict == "409 Conflict: the resource already exists"
MsgEnterUrl == "Please enter a URL"
MsgEnterDoi == "Please enter a DOI"
MsgSelectPdf == "Please select a PDF file"
MsgNoMetadata == "Failed to retrieve metadata"
MsgDuplicate == "This paper already exists in your bookshelf"
MsgAnalyzeFailed == "Failed to analyze paper"

\* String.prototype.includes on the messages above, for the fragments the
\* code looks for.
MessageIncludes(msg, fragment) ==
    CASE fragment = "JSON" -> msg = MsgParseFailed
      [] fragment = "413" -> msg = MsgPayloadTooLarge
      [] fragment = "too large" -> msg \in {MsgPdfTooLarge}
      [] fragment = "already exists" -> msg \in {MsgDuplicate, MsgConflict}
      [] OTHER -> FALSE

Returned(v) == [ok |-> TRUE, data |-> v, message |-> NoMessage]
Thrown(msg) == [ok |-> FALSE, data |-> <<>>, message |-> msg]

(***************************************************************************)
(* parseResponse                                                           *)
(***************************************************************************)
\* text.match of the fenced-block pattern: the first opening fence that a
\* later fence closes, and the content between them without the white space
\* at its two ends (group 1).
jsonCodeBlockMatch(t) ==
    LET opens == {i \in DOMAIN t :
                    t[i] = FenceJson
                    /\ \E j \in DOMAIN t : j > i /\ IsFenceStart(t[j])}
    IN  IF opens = {} THEN [matched |-> FALSE, group |-> <<>>]
        ELSE LET i == CHOOSE x \in opens : \A y \in opens : x <= y
                 closes == {j \in DOMAIN t : j > i /\ IsFenceStart(t[j])}
                 j == CHOOSE x \in closes : \A y \in closes : x <= y
             IN [matched |-> TRUE,
                 group |-> TextTrim(SubSeq(t, i + 1, j - 1))]

\* text.indexOf('{') and text.lastIndexOf('}'), 1-based, 0 for not found
\* (the code's -1).
firstBrace(t) ==
    LET at == {i \in DOMAIN t : t[i] = LBrace}
    IN  IF at = {} THEN 0 ELSE CHOOSE x \in at : \A y \in at : x <= y

\* lastBrace as text.indexOf('}'): the first closing brace.
lastBraceFirstClosing(t) ==
    LET at == {i \in DOMAIN t : t[i] = RBrace}
    IN  IF at = {} THEN 0 ELSE CHOOSE x \in at : \A y \in at : x <= y

lastBrace(t) ==
    LET at == {i \in DOMAIN t : t[i] = RBrace}
    IN  IF at = {} THEN 0 ELSE CHOOSE x \in at : \A y \in at : x >= y

\* jsonString looking for the braces before it looks for the fenced block.
jsonStringBracesFirst(t) ==
    IF firstBrace(t) # 0 /\ lastBrace(t) # 0 /\ lastBrace(t) > firstBrace(t)
    THEN SubSeq(t, firstBrace(t), lastBrace(t))
    ELSE LET m == jsonCodeBlockMatch(t)
         IN  IF m.matched THEN m.group ELSE TextTrim(t)

\* jsonString taking the substring between the braces without the test
\* that the last brace follows the first.
jsonStringAnyBraces(t) ==
    LET m == jsonCodeBlockMatch(t)
    IN  IF m.matched THEN m.group
        ELSE IF firstBrace(t) # 0 /\ lastBrace(t) # 0
        THEN SubSeq(t, firstBrace(t), lastBrace(t))
        ELSE TextTrim(t)

\* The string handed to JSON.parse.
jsonString(t) ==
    LET m == jsonCodeBlockMatch(t)
    IN  IF m.matched THEN m.group
        ELSE IF firstBrace(t) # 0 /\ lastBrace(t) # 0
                /\ lastBrace(t) > firstBrace(t)
        THEN SubSeq(t, firstBrace(t), lastBrace(t))
        ELSE TextTrim(t)

\* parseTry throwing for a missing summary as it does for a missing title.
parseTryStrict(js) ==
    LET r == JSONparse(js)
    IN  IF ~r.ok THEN Thrown(MsgSyntaxError)
        ELSE IF r.kind = "object" /\ Truthy(r.value, "title")
                /\ Truthy(r.value, "summary")
        THEN Returned(r.value)
        ELSE Thrown(MsgNoTitle)

\* The body of the try block: JSON.parse, then the validation.  Reading
\* data.title of a scalar gives undefined.
parseTry(js) ==
    LET r == JSONparse(js)
    IN  IF ~r.ok THEN Thrown(MsgSyntaxError)
        ELSE IF r.kind = "object" /\ Truthy(r.value, "title")
        THEN Returned(r.value)
        ELSE Thrown(MsgNoTitle)

\* The catch block: whatever was thrown inside the try block is replaced.
parseCatch(thrown) == Thrown(MsgParseFailed)

parseResponse(t) ==
    IF t = <<>> THEN Thrown(MsgNoResponse)
    ELSE LET r == parseTry(jsonString(t))
         IN  IF r.ok THEN r ELSE parseCatch(r)

(***************************************************************************)
(* analyzePaperUrl, analyzePaperPdf.  The reply of ai.models.generateContent*)
(* is [rejects, message, text, finishReason]: the call either rejects with *)
(* an error of that message, or resolves to a response with that text and  *)
(* that finish reason of its first candidate ("none": no candidate).       *)
(***************************************************************************)
Rejects(msg) ==
    [rejects |-> TRUE, message |-> msg, text |-> <<>>, finishReason |-> "none"]
Responds(t, reason) ==
    [rejects |-> FALSE, message |-> NoMessage, text |-> t, finishReason |-> reason]

analyzeUrlTry(reply) ==
    IF reply.rejects THEN Thrown(reply.message)
    ELSE IF reply.text = <<>>
    THEN IF reply.finishReason # "none" /\ reply.finishReason # "STOP"
         THEN IF reply.finishReason = "RECITATION"
              THEN Thrown(MsgRecitation)
              ELSE Thrown(MsgBlocked)
         ELSE Thrown(MsgEmptyUrl)
    ELSE parseResponse(reply.text)

analyzePaperUrl(reply) ==
    LET r == analyzeUrlTry(reply)
    IN  IF r.ok THEN r
        ELSE Thrown(IF r.message # NoMessage THEN r.message
                    ELSE MsgAnalyzeFailedUrl)

\* analyzePdfTry reporting a blocked response as an empty one.
analyzePdfTryBlockedAsEmpty(reply) ==
    IF reply.rejects THEN Thrown(reply.message)
    ELSE IF reply.text = <<>> THEN Thrown(MsgEmptyPdf)
    ELSE LET r == parseResponse(reply.text)
         IN  IF ~r.ok THEN r
             ELSE Returned(
                    IF Has(r.data, "foundUrl")
                    THEN [key \in DOMAIN r.data \cup {"url"} |->
                            IF key = "url" THEN r.data["foundUrl"]
                            ELSE r.data[key]]
                    ELSE r.data)

analyzePdfTry(reply) ==
    IF reply.rejects THEN Thrown(reply.message)
    ELSE IF reply.text = <<>>
    THEN IF reply.finishReason # "none" /\ reply.finishReason # "STOP"
         THEN Thrown(IF reply.finishReason = "RECITATION"
                     THEN MsgBlockedPdfRecitation ELSE MsgBlockedPdf)
         ELSE Thrown(MsgEmptyPdf)
    ELSE LET r == parseResponse(reply.text)
         IN  IF ~r.ok THEN r
             ELSE Returned(
                    IF Has(r.data, "foundUrl")
                    THEN [key \in DOMAIN r.data \cup {"url"} |->
                            IF key = "url" THEN r.data["foundUrl"]
                            ELSE r.data[key]]
                    ELSE r.data)

analyzePaperPdf(reply) ==
    LET r == analyzePdfTry(reply)
    IN  IF r.ok THEN r
        ELSE Thrown(
               IF MessageIncludes(r.message, "413")
                  \/ MessageIncludes(r.message, "too large")
               THEN MsgPdfTooLarge
               ELSE IF MessageIncludes(r.message, "JSON")
               THEN MsgPdfParseFailed
               ELSE IF r.message # NoMessage THEN r.message
               ELSE MsgAnalyzeFailedPdf)

(***************************************************************************)
(* App: the stored collection and its load-time migration.                 *)
(***************************************************************************)
\* undefined passed as an argument in a string | undefined slot.
UNDEFINED == <<"undefined">>

\* The fallback topic "Biology" of the migration.
Biology == <<"B", "i", "o", "l", "o", "g", "y">>

\* o with key k set to value v.
With(o, k, v) == [key \in DOMAIN o \cup {k} |-> IF key = k THEN v ELSE o[key]]

\* o without key k.
Without(o, k) == [key \in DOMAIN o \ {k} |-> o[key]]

\* migrateOne taking the last tag for the topic.
migrateOneLastTag(p) ==
    LET withTopic ==
            With(p, "topic",
                 IF Truthy(p, "topic") THEN p.topic
                 ELSE IF Has(p, "tags") /\ Len(p.tags) > 0 THEN p.tags[Len(p.tags)]
                 ELSE Biology)
    IN  With(withTopic, "tags", IF Has(p, "tags") THEN p.tags ELSE <<>>)

\* migrateOne taking the topic from the tags whenever there is a tag.
migrateOneTagOverTopic(p) ==
    LET withTopic ==
            With(p, "topic",
                 IF Has(p, "tags") /\ Len(p.tags) > 0 THEN p.tags[1]
                 ELSE IF Truthy(p, "topic") THEN p.topic
                 ELSE Biology)
    IN  With(withTopic, "tags", IF Has(p, "tags") THEN p.tags ELSE <<>>)

\* One record of the migration: topic: p.topic || (first tag or "Biology"),
\* tags: p.tags || [].
migrateOne(p) ==
    LET withTopic ==
            With(p, "topic",
                 IF Truthy(p, "topic") THEN p.topic
                 ELSE IF Has(p, "tags") /\ Len(p.tags) > 0 THEN p.tags[1]
                 ELSE Biology)
    IN  With(withTopic, "tags", IF Has(p, "tags") THEN p.tags ELSE <<>>)

\* initial.map(...) of the lazy initial state of papers.
migrate(saved) == [i \in DOMAIN saved |-> migrateOne(saved[i])]

\* A record that localStorage holds from before topic existed.
StoredOld ==
    [id |-> 1, url |-> <<"u">>, title |-> <<"b">>, summary |-> <<"s">>,
     authors |-> << <<"x">> >>, tags |-> << <<"g">>, <<"h">> >>, addedAt |-> 0]

\* The stored collections the application model starts from.
StartCollections == { <<>>, <<StoredOld>> }

(***************************************************************************)
(* App: derived state.                                                     *)
(***************************************************************************)
\* A string | null value that JavaScript takes as true.
Selected(x) == x # NULL /\ x # EMPTY

\* useMemo topics: topic -> number of papers with it.
topics(ps) ==
    LET keys == {ps[i].topic : i \in {j \in DOMAIN ps : Truthy(ps[j], "topic")}}
    IN  [t \in keys |->
            Cardinality({i \in DOMAIN ps : Truthy(ps[i], "topic") /\ ps[i].topic = t})]

\* subTopics counting the sub-topics of the papers of every topic.
subTopicsOfAnyTopic(ps, topic) ==
    IF ~Selected(topic) THEN <<>>
    ELSE LET counted == {i \in DOMAIN ps : Truthy(ps[i], "subTopic")}
             keys == {ps[i].subTopic : i \in counted}
         IN  [u \in keys |->
                Cardinality({i \in counted : ps[i].subTopic = u})]

\* useMemo subTopics: sub-topic -> number of papers of the selected topic
\* with it.
subTopics(ps, topic) ==
    IF ~Selected(topic) THEN <<>>
    ELSE LET counted == {i \in DOMAIN ps :
                            /\ Has(ps[i], "topic") /\ ps[i].topic = topic
                            /\ Truthy(ps[i], "subTopic")}
             keys == {ps[i].subTopic : i \in counted}
         IN  [u \in keys |->
                Cardinality({i \in counted : ps[i].subTopic = u})]

matchesTopic(p, topic) ==
    IF Selected(topic) THEN Has(p, "topic") /\ p.topic = topic ELSE TRUE

matchesSubTopic(p, sub) ==
    IF Selected(sub) THEN Has(p, "subTopic") /\ p.subTopic = sub ELSE TRUE

\* selectedTag ? p.tags.includes(selectedTag) : true
matchesTag(p, tag) ==
    IF Selected(tag) THEN Has(p, "tags") /\ arrayIncludes(p.tags, tag) ELSE TRUE

\* s.toLowerCase().includes(q.toLowerCase())
ciIncludes(s, q) == includes(toLowerCase(s), toLowerCase(q))

someIncludes(a, q) == \E i \in DOMAIN a : ciIncludes(a[i], q)

matchesSearch(p, q) ==
    IF q # EMPTY
    THEN \/ (Has(p, "title") /\ ciIncludes(p.title, q))
         \/ (Has(p, "authors") /\ someIncludes(p.authors, q))
         \/ (Has(p, "tags") /\ someIncludes(p.tags, q))
         \/ (Has(p, "topic") /\ ciIncludes(p.topic, q))
         \/ (Truthy(p, "subTopic") /\ ciIncludes(p.subTopic, q))
    ELSE TRUE

\* The filter callback throws a TypeError when it reads a property of an
\* absent (undefined) field; || evaluates its operands left to right and
\* stops at the first true one.
filterThrows(p, tag, q) ==
    \/ (Selected(tag) /\ ~Has(p, "tags"))
    \/ /\ q # EMPTY
       /\ \/ ~Has(p, "title")
          \/ /\ ~ciIncludes(p.title, q)
             /\ \/ ~Has(p, "authors")
                \/ /\ ~someIncludes(p.authors, q)
                   /\ \/ ~Has(p, "tags")
                      \/ (~someIncludes(p.tags, q) /\ ~Has(p, "topic"))

matches(p, topic, sub, tag, q) ==
    /\ matchesTopic(p, topic)
    /\ matchesSubTopic(p, sub)
    /\ matchesTag(p, tag)
    /\ matchesSearch(p, q)

RECURSIVE filter(_, _, _, _, _)
filter(ps, topic, sub, tag, q) ==
    IF ps = <<>> THEN <<>>
    ELSE (IF matches(Head(ps), topic, sub, tag, q) THEN <<Head(ps)>> ELSE <<>>)
         \o filter(Tail(ps), topic, sub, tag, q)

\* Array.prototype.sort with (a, b) => b.addedAt - a.addedAt: a stable sort,
\* larger addedAt first.  insertSorted puts p after every element that is
\* not older than it.
\* insertSorted putting p before the elements of its own addedAt: a sort
\* that is not stable.
RECURSIVE insertSortedBeforeEqual(_, _)
insertSortedBeforeEqual(p, sorted) ==
    IF sorted = <<>> THEN <<p>>
    ELSE IF Head(sorted).addedAt > p.addedAt
    THEN <<Head(sorted)>> \o insertSortedBeforeEqual(p, Tail(sorted))
    ELSE <<p>> \o sorted

RECURSIVE insertSorted(_, _)
insertSorted(p, sorted) ==
    IF sorted = <<>> THEN <<p>>
    ELSE IF Head(sorted).addedAt >= p.addedAt
    THEN <<Head(sorted)>> \o insertSorted(p, Tail(sorted))
    ELSE <<p>> \o sorted

RECURSIVE sortNewestFirst(_)
sortNewestFirst(ps) ==
    IF ps = <<>> THEN <<>>
    ELSE insertSorted(ps[Len(ps)], sortNewestFirst(SubSeq(ps, 1, Len(ps) - 1)))

\* useMemo filteredPapers
filteredPapers(ps, topic, sub, tag, q) ==
    sortNewestFirst(filter(ps, topic, sub, tag, q))

\* Rendering App throws (and React unmounts the application) when the
\* filter callback throws or a PaperCard reads paper.authors.length or
\* paper.tags.map of an absent field.
renderThrows(ps, topic, sub, tag, q) ==
    \/ \E i \in DOMAIN ps : filterThrows(ps[i], tag, q)
    \/ \E i \in DOMAIN ps :
          /\ matches(ps[i], topic, sub, tag, q)
          /\ (~Has(ps[i], "authors") \/ ~Has(ps[i], "tags"))

(***************************************************************************)
(* App: handlers, as functions of the state they are applied to.           *)
(***************************************************************************)
handleAddPaper(prev, newPaper) == <<newPaper>> \o prev

handleDeletePaper(prev, id) ==
    LET keep(p) == p.id # id
    IN  SelectSeq(prev, keep)

\* updatedPaper as it would be if the edited paper were built anew and
\* stamped with the current time.
updatedPaperRestamped(p, newTopic, newSubTopic, newTags) ==
    LET q == With(With(With(p, "topic", newTopic), "tags", newTags),
                  "addedAt", now + 1)
    IN  IF newSubTopic = UNDEFINED THEN Without(q, "subTopic")
        ELSE With(q, "subTopic", newSubTopic)

\* { ...p, topic: newTopic, subTopic: newSubTopic, tags: newTags }
updatedPaper(p, newTopic, newSubTopic, newTags) ==
    LET q == With(With(p, "topic", newTopic), "tags", newTags)
    IN  IF newSubTopic = UNDEFINED THEN Without(q, "subTopic")
        ELSE With(q, "subTopic", newSubTopic)

handleUpdateMetadata(prev, id, newTopic, newSubTopic, newTags) ==
    [i \in DOMAIN prev |->
        IF prev[i].id = id
        THEN updatedPaper(prev[i], newTopic, newSubTopic, newTags)
        ELSE prev[i]]

\* handleTopicSelection without its reset of the sub-topic.
handleTopicSelectionKeepingSubTopic(topic) ==
    [selectedTopic |-> topic, selectedSubTopic |-> selectedSubTopic,
     selectedTag |-> NULL]

\* setSelectedTopic(topic); setSelectedSubTopic(null); setSelectedTag(null)
handleTopicSelection(topic) ==
    [selectedTopic |-> topic, selectedSubTopic |-> NULL, selectedTag |-> NULL]

\* handleTagClick without its reset of the topic.
handleTagClickKeepingTopic(tag) ==
    [selectedTopic |-> selectedTopic, selectedSubTopic |-> NULL,
     selectedTag |-> tag]

\* setSelectedTag(tag); setSelectedTopic(null); setSelectedSubTopic(null)
handleTagClick(tag) ==
    [selectedTopic |-> NULL, selectedSubTopic |-> NULL, selectedTag |-> tag]

(***************************************************************************)
(* AddPaperModal                                                           *)
(***************************************************************************)
\* error === null
NoError == "<null>"

\* The names a chosen PDF file and the prefix of a DOI link stand for.
FileName == <<"f">>
DoiOrg == <<"https://doi.org/">>
GoogleSearch == <<"https://www.google.com/search?q=">>

\* What the user can type into the URL or DOI field.
InputValues == { EMPTY, <<" ">>, <<"u">> }

\* inputValue.trim() with the doi.org and doi: prefixes removed; the typed
\* values carry no such prefix.
cleanDoi(v) == trim(v)

\* isDuplicate comparing the lower-cased titles without trimming them.
isDuplicateUntrimmed(existingPapers, paperMetadata) ==
    \E i \in DOMAIN existingPapers :
        toLowerCase(existingPapers[i].title) = toLowerCase(paperMetadata.title)

\* existingPapers.some(p => p.title.toLowerCase().trim() ===
\*                          paperMetadata.title.toLowerCase().trim())
isDuplicate(existingPapers, paperMetadata) ==
    \E i \in DOMAIN existingPapers :
        trim(toLowerCase(existingPapers[i].title))
            = trim(toLowerCase(paperMetadata.title))

\* The fields newPaper copies from paperMetadata; a field the metadata
\* lacks is undefined in the paper.
CopiedFields ==
    {"title", "summary", "authors", "topic", "subTopic", "tags", "journal",
     "publishDate"}

newPaper(paperMetadata, id, paperUrl, addedAt) ==
    [key \in {"id", "url", "addedAt"} \cup (DOMAIN paperMetadata \cap CopiedFields) |->
        CASE key = "id" -> id
          [] key = "url" -> paperUrl
          [] key = "addedAt" -> addedAt
          [] OTHER -> paperMetadata[key]]

\* paperUrl of the PDF path: result.url || a search for the title.
pdfUrl(result) ==
    IF Truthy(result, "url") THEN result.url ELSE GoogleSearch \o result.title

\* err.message || "Failed to analyze paper"
errorText(message) == IF message # NoMessage THEN message ELSE MsgAnalyzeFailed

(***************************************************************************)
(* The inputs of the application model.                                    *)
(***************************************************************************)
\* Response texts of the analysis service: a complete record, a record
\* whose title collides with it, a record without topic, and an object
\* without title.  The service replies with one of them, or fails.
TextA ==
    <<LBrace, "mTitleA", "mSummary", "mAuthors", "mTopicT", "mSubS", "mTagsG", RBrace>>
TextSpA ==
    <<LBrace, "mTitleSpA", "mSummary", "mAuthors", "mTopicU", "mTagsNone", RBrace>>
TextNoTopic ==
    <<LBrace, "mTitleB", "mSummary", "mAuthors", "mTagsGH", RBrace>>
TextNoTitle ==
    <<LBrace, "mSummary", "mAuthors", "mTopicT", "mTagsG", RBrace>>

ServiceReplies ==
    { Responds(TextA, "STOP"), Responds(TextSpA, "STOP"),
      Responds(TextNoTopic, "STOP"), Responds(TextNoTitle, "STOP"),
      Rejects(MsgNetwork) }

\* The replies that decide what the modal does: two records whose titles
\* collide with each other and not with a stored title, and a failure.
ModalReplies ==
    { Responds(TextA, "STOP"), Responds(TextSpA, "STOP"), Rejects(MsgNetwork) }

\* The replies behind every outcome of a submission: records that are
\* added or collide, an object without title, a blocked and an empty
\* response, and rejections of the call with the messages of the service.
SubmitReplies ==
    { Responds(TextA, "STOP"), Responds(TextSpA, "STOP"),
      Responds(TextNoTitle, "STOP"), Responds(<<>>, "SAFETY"),
      Responds(<<>>, "STOP"), Rejects(MsgNetwork), Rejects(MsgConflict) }

\* What the edit form of a PaperCard can hold when it is saved.
EditedForms ==
    { [topic |-> <<"U">>, subTopic |-> UNDEFINED, tags |-> <<>>],
      [topic |-> <<"T">>, subTopic |-> <<"S">>, tags |-> << <<"g">> >>],
      [topic |-> EMPTY, subTopic |-> <<"R">>, tags |-> << <<"h">> >>] }

SearchQueries == { EMPTY, <<"a">> }

Modes == {"url", "doi", "pdf"}

(***************************************************************************)
(* State.                                                                  *)
(***************************************************************************)
NotParsed == [ok |-> FALSE, data |-> <<>>, message |-> "<not run>"]

\* The history value left by the handlers no property tells apart.
OtherOp == [op |-> "other"]

InitApp(saved) ==
    /\ papers = migrate(saved)
    /\ selectedTopic = NULL
    /\ selectedSubTopic = NULL
    /\ selectedTag = NULL
    /\ searchQuery = EMPTY
    /\ isAddModalOpen = FALSE
    /\ mode = "url"
    /\ inputValue = EMPTY
    /\ loading = FALSE
    /\ error = NoError
    /\ fileChosen = FALSE
    /\ calls = <<>>
    /\ nextId = Len(saved) + 1
    /\ now = 1
    /\ lastOp = [op |-> "init"]
    /\ topicsMemo = topics(papers)
    /\ subTopicsMemo = subTopics(papers, selectedTopic)
    /\ filteredPapersMemo =
          filteredPapers(papers, selectedTopic, selectedSubTopic, selectedTag,
                         searchQuery)

Init ==
    /\ \E saved \in StartCollections : InitApp(saved)
    /\ text = <<>>
    /\ parsed = NotParsed

\* The start of the parts that are run on their own: nothing stored, no
\* response text received, nothing parsed.
InitParse ==
    /\ InitApp(<<>>)
    /\ text = <<>>
    /\ parsed = NotParsed

\* The application is mounted: no render has thrown.
Alive == ~renderThrows(papers, selectedTopic, selectedSubTopic, selectedTag, searchQuery)

\* The papers the page lists: filteredPapers.map(paper => <PaperCard ... />)
shown == filteredPapersMemo

\* The dependency arrays of the three useMemo calls.
topicsDeps == <<papers>>

\* The dependency array of subTopics without selectedTopic.
subTopicsDepsPapersOnly == <<papers>>

subTopicsDeps == <<papers, selectedTopic>>

filteredPapersDeps ==
    <<papers, selectedTopic, selectedSubTopic, selectedTag, searchQuery>>

\* The render that follows a handler: each useMemo keeps its value when its
\* dependencies are the same as in the previous render and recomputes it
\* otherwise.
Render ==
    /\ topicsMemo' = IF topicsDeps' = topicsDeps THEN topicsMemo
                     ELSE topics(papers')
    /\ subTopicsMemo' = IF subTopicsDeps' = subTopicsDeps THEN subTopicsMemo
                        ELSE subTopics(papers', selectedTopic')
    /\ filteredPapersMemo' =
          IF filteredPapersDeps' = filteredPapersDeps THEN filteredPapersMemo
          ELSE filteredPapers(papers', selectedTopic', selectedSubTopic',
                              selectedTag', searchQuery')

selectionVars == <<selectedTopic, selectedSubTopic, selectedTag>>
modalVars == <<mode, inputValue, loading, error, fileChosen>>

SetSelection(sel) ==
    /\ selectedTopic' = sel.selectedTopic
    /\ selectedSubTopic' = sel.selectedSubTopic
    /\ selectedTag' = sel.selectedTag

(***************************************************************************)
(* Sidebar and page actions.                                               *)
(***************************************************************************)
\* "All Papers" and "Clear": onSelectTopic(null)
SelectAllPapers ==
    /\ Alive
    /\ SetSelection(handleTopicSelection(NULL))
    /\ lastOp' = [op |-> "handleTopicSelection", arg |-> NULL,
                  subTopicBefore |-> selectedSubTopic,
                  topicBefore |-> selectedTopic]
    /\ UNCHANGED <<papers, searchQuery, isAddModalOpen, modalVars, calls,
                   nextId, now, parseVars>>
    /\ Render

\* A topic row: onSelectTopic(topic === selectedTopic ? null : topic)
ToggleTopic(topic) ==
    /\ Alive
    /\ topic \in DOMAIN topicsMemo
    /\ LET arg == IF topic = selectedTopic THEN NULL ELSE topic
       IN  /\ SetSelection(handleTopicSelection(arg))
           /\ lastOp' = [op |-> "handleTopicSelection", arg |-> arg,
                         subTopicBefore |-> selectedSubTopic,
                         topicBefore |-> selectedTopic]
    /\ UNCHANGED <<papers, searchQuery, isAddModalOpen, modalVars, calls,
                   nextId, now, parseVars>>
    /\ Render

\* A sub-topic row, rendered under the row of the selected topic:
\* onSelectSubTopic(sub === selectedSubTopic ? null : sub), wired to
\* setSelectedSubTopic.
ToggleSubTopic(sub) ==
    /\ Alive
    /\ selectedTopic \in DOMAIN topicsMemo
    /\ sub \in DOMAIN subTopicsMemo
    /\ selectedSubTopic' = IF sub = selectedSubTopic THEN NULL ELSE sub
    /\ lastOp' = OtherOp
    /\ UNCHANGED <<papers, selectedTopic, selectedTag, searchQuery,
                   isAddModalOpen, modalVars, calls, nextId, now, parseVars>>
    /\ Render

\* A tag button of a shown PaperCard: onTagClick(tag)
TagClick(tag) ==
    /\ Alive
    /\ \E i \in DOMAIN shown : arrayIncludes(shown[i].tags, tag)
    /\ SetSelection(handleTagClick(tag))
    /\ lastOp' = [op |-> "handleTagClick", arg |-> tag,
                  subTopicBefore |-> selectedSubTopic,
                  topicBefore |-> selectedTopic]
    /\ UNCHANGED <<papers, searchQuery, isAddModalOpen, modalVars, calls,
                   nextId, now, parseVars>>
    /\ Render

\* The button of the active tag banner: setSelectedTag(null)
ClearTag ==
    /\ Alive
    /\ Selected(selectedTag)
    /\ selectedTag' = NULL
    /\ lastOp' = OtherOp
    /\ UNCHANGED <<papers, selectedTopic, selectedSubTopic, searchQuery,
                   isAddModalOpen, modalVars, calls, nextId, now, parseVars>>
    /\ Render

\* The search field: setSearchQuery(e.target.value)
Search(q) ==
    /\ Alive
    /\ q # searchQuery
    /\ searchQuery' = q
    /\ lastOp' = OtherOp
    /\ UNCHANGED <<papers, selectionVars, isAddModalOpen, modalVars, calls,
                   nextId, now, parseVars>>
    /\ Render

\* The delete button of a shown PaperCard: onDelete(paper.id)
DeletePaper(id) ==
    /\ Alive
    /\ \E i \in DOMAIN shown : shown[i].id = id
    /\ papers' = handleDeletePaper(papers, id)
    /\ lastOp' = OtherOp
    /\ UNCHANGED <<selectionVars, searchQuery, isAddModalOpen, modalVars,
                   calls, nextId, now, parseVars>>
    /\ Render

\* saveChanges of a shown PaperCard:
\* onUpdateMetadata(paper.id, editedTopic, editedSubTopic || undefined, editedTags)
UpdateMetadata(id, newTopic, newSubTopic, newTags) ==
    /\ Alive
    /\ \E i \in DOMAIN shown : shown[i].id = id
    /\ papers' = handleUpdateMetadata(papers, id, newTopic, newSubTopic, newTags)
    /\ lastOp' = [op |-> "handleUpdateMetadata", id |-> id]
    /\ UNCHANGED <<selectionVars, searchQuery, isAddModalOpen, modalVars,
                   calls, nextId, now, parseVars>>
    /\ Render

(***************************************************************************)
(* AddPaperModal actions.  The modal component stays mounted while it is   *)
(* closed (it renders null), so its state survives closing; its DOM, with  *)
(* the file input, does not.                                               *)
(***************************************************************************)
\* Every suspended handleSubmit whose modal is dismissed is marked.
Abandon(cs) == [i \in DOMAIN cs |-> [cs[i] EXCEPT !.abandoned = TRUE]]

\* "Add Paper": setIsAddModalOpen(true)
OpenModal ==
    /\ Alive
    /\ ~isAddModalOpen
    /\ isAddModalOpen' = TRUE
    /\ lastOp' = OtherOp
    /\ UNCHANGED <<papers, selectionVars, searchQuery, modalVars, calls,
                   nextId, now, parseVars>>
    /\ Render

\* The X button of the modal: onClose()
CloseModal ==
    /\ Alive
    /\ isAddModalOpen
    /\ isAddModalOpen' = FALSE
    /\ fileChosen' = FALSE
    /\ calls' = Abandon(calls)
    /\ lastOp' = OtherOp
    /\ UNCHANGED <<papers, selectionVars, searchQuery, mode, inputValue,
                   loading, error, nextId, now, parseVars>>
    /\ Render

\* A tab of the modal: handleTabChange(newMode), which calls reset()
TabChange(newMode) ==
    /\ Alive
    /\ isAddModalOpen
    /\ mode' = newMode
    /\ inputValue' = EMPTY
    /\ error' = NoError
    /\ loading' = FALSE
    /\ fileChosen' = (fileChosen /\ mode = "pdf" /\ newMode = "pdf")
    /\ lastOp' = OtherOp
    /\ UNCHANGED <<papers, selectionVars, searchQuery, isAddModalOpen, calls,
                   nextId, now, parseVars>>
    /\ Render

\* The URL or DOI field: setInputValue(e.target.value)
TypeInput(v) ==
    /\ Alive
    /\ isAddModalOpen
    /\ mode \in {"url", "doi"}
    /\ v # inputValue
    /\ inputValue' = v
    /\ lastOp' = OtherOp
    /\ UNCHANGED <<papers, selectionVars, searchQuery, isAddModalOpen, mode,
                   loading, error, fileChosen, calls, nextId, now, parseVars>>
    /\ Render

\* The file input: a file is chosen, setInputValue(file.name)
ChooseFile ==
    /\ Alive
    /\ isAddModalOpen
    /\ mode = "pdf"
    /\ fileChosen' = TRUE
    /\ inputValue' = FileName
    /\ lastOp' = OtherOp
    /\ UNCHANGED <<papers, selectionVars, searchQuery, isAddModalOpen, mode,
                   loading, error, calls, nextId, now, parseVars>>
    /\ Render

\* What handleSubmit throws before its first await (NoMessage: nothing),
\* and the paperUrl it has computed by then.
submitRejects ==
    CASE mode = "url" -> IF trim(inputValue) = EMPTY THEN MsgEnterUrl ELSE NoMessage
      [] mode = "doi" -> IF trim(inputValue) = EMPTY THEN MsgEnterDoi ELSE NoMessage
      [] mode = "pdf" -> IF ~fileChosen THEN MsgSelectPdf ELSE NoMessage

submitUrl ==
    CASE mode = "url" -> trim(inputValue)
      [] mode = "doi" -> DoiOrg \o cleanDoi(inputValue)
      [] mode = "pdf" -> EMPTY

\* Submit with a catch block that also erases the input.
SubmitErasingInput ==
    /\ Alive
    /\ isAddModalOpen
    /\ ~loading
    /\ inputValue # EMPTY
    /\ IF submitRejects # NoMessage
       THEN /\ error' = errorText(submitRejects)
            /\ loading' = FALSE
            /\ calls' = calls
            /\ inputValue' = EMPTY
            /\ lastOp' = [op |-> "handleSubmit", outcome |-> "rejected"]
       ELSE /\ Len(calls) < MaxCalls
            /\ error' = NoError
            /\ loading' = TRUE
            /\ calls' = Append(calls, [mode |-> mode, paperUrl |-> submitUrl,
                                       existingPapers |-> papers,
                                       abandoned |-> FALSE])
            /\ inputValue' = inputValue
            /\ lastOp' = [op |-> "handleSubmit", outcome |-> "awaiting"]
    /\ UNCHANGED <<papers, selectionVars, searchQuery, isAddModalOpen, mode,
                   fileChosen, nextId, now, parseVars>>
    /\ Render

\* The submit button (disabled={loading || !inputValue}): handleSubmit up
\* to its await, or to its catch and finally when it throws before.
\* The suspended invocation keeps the mode and paperUrl it computed and the
\* existingPapers prop of the render it was created in.
Submit ==
    /\ Alive
    /\ isAddModalOpen
    /\ ~loading
    /\ inputValue # EMPTY
    /\ IF submitRejects # NoMessage
       THEN /\ error' = errorText(submitRejects)
            /\ loading' = FALSE
            /\ calls' = calls
            /\ lastOp' = [op |-> "handleSubmit", outcome |-> "rejected"]
       ELSE /\ Len(calls) < MaxCalls
            /\ error' = NoError
            /\ loading' = TRUE
            /\ calls' = Append(calls, [mode |-> mode, paperUrl |-> submitUrl,
                                       existingPapers |-> papers,
                                       abandoned |-> FALSE])
            /\ lastOp' = [op |-> "handleSubmit", outcome |-> "awaiting"]
    /\ UNCHANGED <<papers, selectionVars, searchQuery, isAddModalOpen, mode,
                   inputValue, fileChosen, nextId, now, parseVars>>
    /\ Render

RemoveAt(seq, i) == SubSeq(seq, 1, i - 1) \o SubSeq(seq, i + 1, Len(seq))

\* The analysis call of suspended invocation i settles with reply, and
\* handleSubmit runs from its await to its end.
Resolve(i, reply) ==
    /\ Alive
    /\ i \in DOMAIN calls
    /\ \E c \in {calls[i]} :
       \E r \in {IF c.mode = "pdf" THEN analyzePaperPdf(reply)
                 ELSE analyzePaperUrl(reply)} :
       \E paperUrl \in {IF c.mode = "pdf" /\ r.ok THEN pdfUrl(r.data)
                        ELSE c.paperUrl} :
           IF ~r.ok
           THEN /\ error' = errorText(r.message)
                /\ loading' = FALSE
                /\ calls' = RemoveAt(calls, i)
                /\ lastOp' = [op |-> "handleSubmit", outcome |-> "failed",
                              abandoned |-> c.abandoned]
                /\ UNCHANGED <<papers, isAddModalOpen, inputValue, fileChosen,
                               nextId, now>>
           ELSE IF isDuplicate(c.existingPapers, r.data)
           THEN /\ error' = errorText(MsgDuplicate)
                /\ loading' = FALSE
                /\ calls' = RemoveAt(calls, i)
                /\ lastOp' = [op |-> "handleSubmit", outcome |-> "duplicate",
                              abandoned |-> c.abandoned, title |-> r.data.title,
                              existingPapers |-> c.existingPapers,
                              before |-> papers]
                /\ UNCHANGED <<papers, isAddModalOpen, inputValue, fileChosen,
                               nextId, now>>
           ELSE /\ Len(papers) < MaxPapers
                /\ nextId <= MaxIds
                /\ \E t \in {now, now + 1} :
                      /\ now' = t
                      /\ papers' = handleAddPaper(papers,
                                      newPaper(r.data, nextId, paperUrl, t))
                /\ nextId' = nextId + 1
                /\ inputValue' = EMPTY
                /\ error' = NoError
                /\ loading' = FALSE
                /\ isAddModalOpen' = FALSE
                /\ fileChosen' = FALSE
                /\ calls' = Abandon(RemoveAt(calls, i))
                /\ lastOp' = [op |-> "handleSubmit", outcome |-> "added",
                              abandoned |-> c.abandoned, title |-> r.data.title,
                              existingPapers |-> c.existingPapers,
                              before |-> papers]
    /\ UNCHANGED <<selectionVars, searchQuery, mode, parseVars>>
    /\ Render

\* fileToBase64 of a suspended PDF submission rejects with the reader's
\* error event, which has no message.
FileReadFails(i) ==
    /\ Alive
    /\ i \in DOMAIN calls
    /\ calls[i].mode = "pdf"
    /\ error' = errorText(NoMessage)
    /\ loading' = FALSE
    /\ calls' = RemoveAt(calls, i)
    /\ lastOp' = [op |-> "handleSubmit", outcome |-> "failed",
                  abandoned |-> calls[i].abandoned]
    /\ UNCHANGED <<papers, selectionVars, searchQuery, isAddModalOpen, mode,
                   inputValue, fileChosen, nextId, now, parseVars>>
    /\ Render

Labels == { <<"g">>, <<"h">>, <<"S">>, <<"R">>, <<"T">>, <<"U">>, Biology }

Next ==
    \/ SelectAllPapers
    \/ \E t \in Labels : ToggleTopic(t)
    \/ \E u \in Labels : ToggleSubTopic(u)
    \/ \E g \in Labels : TagClick(g)
    \/ ClearTag
    \/ \E q \in SearchQueries : Search(q)
    \/ \E id \in 1..MaxIds : DeletePaper(id)
    \/ \E id \in 1..MaxIds, f \in EditedForms :
          UpdateMetadata(id, f.topic, f.subTopic, f.tags)
    \/ OpenModal
    \/ CloseModal
    \/ \E m \in Modes : TabChange(m)
    \/ \E v \in InputValues : TypeInput(v)
    \/ ChooseFile
    \/ Submit
    \/ \E i \in 1..MaxCalls, reply \in ServiceReplies : Resolve(i, reply)
    \/ \E i \in 1..MaxCalls : FileReadFails(i)

\* The whole application.
Spec == Init /\ [][Next]_vars

\* The bookshelf page with every page handler, used with the pointer (the
\* open modal covers the page), fed by submissions of one link at a time.
NextShelf ==
    \/ ~isAddModalOpen /\ SelectAllPapers
    \/ \E t \in Labels : ~isAddModalOpen /\ ToggleTopic(t)
    \/ \E u \in Labels : ~isAddModalOpen /\ ToggleSubTopic(u)
    \/ \E g \in Labels : ~isAddModalOpen /\ TagClick(g)
    \/ ~isAddModalOpen /\ ClearTag
    \/ \E q \in SearchQueries : ~isAddModalOpen /\ Search(q)
    \/ \E id \in 1..MaxIds : ~isAddModalOpen /\ DeletePaper(id)
    \/ \E id \in 1..MaxIds, f \in EditedForms :
          ~isAddModalOpen /\ UpdateMetadata(id, f.topic, f.subTopic, f.tags)
    \/ OpenModal
    \/ TypeInput(<<"u">>)
    \/ Submit
    \/ \E reply \in ServiceReplies : Resolve(1, reply)

SpecShelf == Init /\ [][NextShelf]_vars

\* The add-paper modal with its Link and DOI tabs and overlapping
\* submissions, beside a page on which papers are deleted.
NextModal ==
    \/ OpenModal
    \/ CloseModal
    \/ \E m \in {"url", "doi"} : TabChange(m)
    \/ \E v \in {EMPTY, <<"u">>} : TypeInput(v)
    \/ Submit
    \/ \E i \in 1..MaxCalls, reply \in ModalReplies : Resolve(i, reply)
    \/ \E id \in 1..MaxIds : DeletePaper(id)

SpecModal == Init /\ [][NextModal]_vars

\* SpecModal with every outstanding analysis call settling in the end:
\* the promise of generateContent resolves or rejects.
SpecModalFair ==
    /\ SpecModal
    /\ \A i \in 1..MaxCalls :
          WF_vars(\E reply \in ModalReplies : Resolve(i, reply))

\* The error banner of the modal: none without an error, amber when
\* error.includes("already exists"), red otherwise.
bannerStyle ==
    IF error = NoError THEN "none"
    ELSE IF MessageIncludes(error, "already exists") THEN "amber"
    ELSE "red"

\* The add-paper modal with its three tabs, every input and every outcome
\* of a submission, submitted while no earlier call is outstanding.
NextSubmit ==
    \/ OpenModal
    \/ CloseModal
    \/ \E m \in Modes : TabChange(m)
    \/ \E v \in InputValues : TypeInput(v)
    \/ ChooseFile
    \/ calls = <<>> /\ Submit
    \/ \E reply \in SubmitReplies : Resolve(1, reply)
    \/ FileReadFails(1)

SpecSubmit == Init /\ [][NextSubmit]_vars

(***************************************************************************)
(* The analysis service on its own: two calls on one path settle, each     *)
(* with a reply drawn from the outcomes of ai.models.generateContent, and  *)
(* the history keeps what analyzePaperUrl or analyzePaperPdf made of each. *)
(***************************************************************************)
\* The outcomes of a call: it rejects, with one of the service's messages
\* or with an error that has none; it resolves without text, with no
\* candidate or with a candidate that finished normally or was stopped for
\* safety or recitation; it resolves with a text.
ServiceOutcomes ==
    { Rejects(MsgNetwork), Rejects(MsgPayloadTooLarge), Rejects(MsgConflict),
      Rejects(NoMessage),
      Responds(<<>>, "none"), Responds(<<>>, "STOP"),
      Responds(<<>>, "SAFETY"), Responds(<<>>, "RECITATION"),
      Responds(TextA, "STOP"), Responds(TextNoTitle, "STOP"),
      Responds(TextA, "SAFETY") }

\* The two paths of ingestion: analyzePaperUrl and analyzePaperPdf.
ServicePaths == {"url", "pdf"}

analyzePaper(path, reply) ==
    IF path = "pdf" THEN analyzePaperPdf(reply) ELSE analyzePaperUrl(reply)

\* Two calls are started on one path.
StartCalls(path) ==
    /\ lastOp.op = "init"
    /\ lastOp' = [op |-> "started", path |-> path]
    /\ UNCHANGED <<papers, selectionVars, searchQuery, isAddModalOpen,
                   modalVars, calls, nextId, now, topicsMemo, subTopicsMemo,
                   filteredPapersMemo, parseVars>>

\* The two calls settle, and the function of the path handles each reply.
SettleCalls(first, second) ==
    /\ lastOp.op = "started"
    /\ lastOp' = [op |-> "settled", path |-> lastOp.path,
                  first |-> first, second |-> second,
                  firstResult |-> analyzePaper(lastOp.path, first),
                  secondResult |-> analyzePaper(lastOp.path, second)]
    /\ UNCHANGED <<papers, selectionVars, searchQuery, isAddModalOpen,
                   modalVars, calls, nextId, now, topicsMemo, subTopicsMemo,
                   filteredPapersMemo, parseVars>>

NextService ==
    \/ \E path \in ServicePaths : StartCalls(path)
    \/ \E first, second \in ServiceOutcomes : SettleCalls(first, second)

SpecService == InitParse /\ [][NextService]_vars

(***************************************************************************)
(* The load on its own: the application starts over a stored collection    *)
(* drawn from bounded sets, and starts again over what it then stored.     *)
(***************************************************************************)
\* JSON.parse(JSON.stringify(papers)): what the effect writes and the next
\* start reads; a field whose value is undefined is not written.
persisted(ps) ==
    [i \in DOMAIN ps |->
        [k \in {key \in DOMAIN ps[i] :
                    key \in {"topic", "subTopic", "journal", "publishDate"}
                        => ps[i][key] # UNDEFINED} |-> ps[i][k]]]

\* The stored records, without their id: written before topic existed, with
\* and without tags; with a topic that an edit emptied; of the current
\* shape, with and without sub-topic and tags.
StoredShapes ==
    LET base == [url |-> <<"u">>, title |-> <<"b">>, summary |-> <<"s">>,
                 authors |-> << <<"x">> >>, addedAt |-> 0]
        topicsOf == {With(base, "topic", t) : t \in {EMPTY, <<"T">>}} \cup {base}
        tagsOf == UNION { {With(r, "tags", g) :
                              g \in {<<>>, << <<"g">>, <<"h">> >>}} \cup {r} :
                          r \in topicsOf }
    IN  tagsOf \cup {With(With(With(base, "topic", <<"T">>), "subTopic", <<"S">>),
                          "tags", << <<"h">> >>)}

StoredCollections ==
    UNION { [1..n -> StoredShapes] : n \in 0..MaxStored }

\* The application starts: the lazy initial state of papers reads the
\* stored collection and migrates it.
LoadPapers(saved) ==
    /\ lastOp.op = "init"
    /\ \E stored \in {[i \in DOMAIN saved |-> With(saved[i], "id", i)]} :
          /\ papers' = migrate(stored)
          /\ lastOp' = [op |-> "load", saved |-> stored]
    /\ nextId' = Len(saved) + 1
    /\ UNCHANGED <<selectionVars, searchQuery, isAddModalOpen, modalVars,
                   calls, now, parseVars>>
    /\ Render

\* The effect has stored the collection; the application starts again.
ReloadPapers ==
    /\ lastOp.op = "load"
    /\ papers' = migrate(persisted(papers))
    /\ lastOp' = [op |-> "reload", saved |-> lastOp.saved, once |-> papers]
    /\ UNCHANGED <<selectionVars, searchQuery, isAddModalOpen, modalVars,
                   calls, nextId, now, parseVars>>
    /\ Render

NextLoad ==
    \/ \E saved \in StoredCollections : LoadPapers(saved)
    \/ ReloadPapers

SpecLoad == InitParse /\ [][NextLoad]_vars

(***************************************************************************)
(* The derived views on their own: App is rendered once over a collection  *)
(* and a selection drawn from bounded sets, and the three useMemo          *)
(* computations run in the order of the source.                            *)
(***************************************************************************)
\* The papers a collection is drawn from, without id and addedAt: complete
\* records, records without sub-topic, and a record ingested without topic.
Shapes ==
    { [url |-> <<"u">>, title |-> <<"A">>, summary |-> <<"s">>,
       authors |-> << <<"x">> >>, topic |-> <<"T">>, subTopic |-> <<"S">>,
       tags |-> << <<"g">> >>],
      [url |-> <<"u">>, title |-> <<"b">>, summary |-> <<"s">>,
       authors |-> << <<"x">> >>, topic |-> <<"T">>,
       tags |-> << <<"g">>, <<"h">> >>],
      [url |-> <<"u">>, title |-> <<"b">>, summary |-> <<"s">>,
       authors |-> << <<"a">> >>, topic |-> <<"U">>, subTopic |-> <<"S">>,
       tags |-> <<>>],
      [url |-> <<"u">>, title |-> <<"b">>, summary |-> <<"s">>,
       authors |-> << <<"x">> >>, tags |-> << <<"g">>, <<"h">> >>] }

\* Date.now() of the insertions.
Stamps == {1, 2}

\* The collections of at most MaxShelf papers, the id of a paper being its
\* place in the collection.
ShelfCollections ==
    UNION { [1..n -> Shapes \X Stamps] : n \in 0..MaxShelf }

shelfPaper(i, drawn) ==
    With(With(drawn[1], "id", i), "addedAt", drawn[2])

FilterTopics == { NULL, <<"T">>, <<"U">> }
FilterSubTopics == { NULL, <<"S">> }
FilterTags == { NULL, <<"g">>, <<"h">> }
FilterQueries == { EMPTY, <<"a">>, <<"s">>, <<"t">> }

InitFilter ==
    /\ \E c \in ShelfCollections :
          papers = [i \in DOMAIN c |-> shelfPaper(i, c[i])]
    /\ selectedTopic \in FilterTopics
    /\ selectedSubTopic \in FilterSubTopics
    /\ selectedTag \in FilterTags
    /\ searchQuery \in FilterQueries
    \* the selections the handlers leave: a sub-topic under a topic only, a
    \* tag without topic and sub-topic
    /\ selectedSubTopic # NULL => selectedTopic # NULL
    /\ selectedTag # NULL => (selectedTopic = NULL /\ selectedSubTopic = NULL)
    /\ isAddModalOpen = FALSE
    /\ mode = "url"
    /\ inputValue = EMPTY
    /\ loading = FALSE
    /\ error = NoError
    /\ fileChosen = FALSE
    /\ calls = <<>>
    /\ nextId = Len(papers) + 1
    /\ now = 2
    /\ lastOp = [op |-> "init"]
    /\ topicsMemo = <<>>
    /\ subTopicsMemo = <<>>
    /\ filteredPapersMemo = <<>>
    /\ text = <<>>
    /\ parsed = NotParsed

\* The first render of App: topics, subTopics, then filteredPapers, whose
\* filter callback may throw and so end the render without a result.
RenderApp ==
    /\ lastOp.op = "init"
    /\ topicsMemo' = topics(papers)
    /\ subTopicsMemo' = subTopics(papers, selectedTopic)
    /\ LET threw == \E i \in DOMAIN papers :
                        filterThrows(papers[i], selectedTag, searchQuery)
       IN  /\ filteredPapersMemo' =
                 IF threw THEN <<>>
                 ELSE filteredPapers(papers, selectedTopic, selectedSubTopic,
                                     selectedTag, searchQuery)
           /\ lastOp' = [op |-> "render", threw |-> threw]
    /\ UNCHANGED <<papers, selectionVars, searchQuery, isAddModalOpen,
                   modalVars, calls, nextId, now, parseVars>>

NextFilter == RenderApp

SpecFilter == InitFilter /\ [][NextFilter]_vars

(***************************************************************************)
(* parseResponse on its own: a response text arrives token by token and    *)
(* parseResponse is applied to what has arrived.                           *)
(***************************************************************************)
TextTokens ==
    { FenceJson, Fence, LBrace, RBrace, Space, Prose, Scalar,
      "mTitleA", "mTitleNone", "mSummary", "mSubS" }

ReceiveToken(tok) ==
    /\ parsed = NotParsed
    /\ Len(text) < MaxTextLen
    /\ text' = Append(text, tok)
    /\ UNCHANGED <<parsed, appVars>>

\* parseResponse(text); the history keeps the string it handed to
\* JSON.parse (the "Attempted JSON String" of its log), if it got that far.
RunParseResponse ==
    /\ parsed = NotParsed
    /\ parsed' = parseResponse(text)
    /\ lastOp' = [op |-> "parseResponse", extracted |-> text # <<>>,
                  jsonString |-> IF text # <<>> THEN jsonString(text) ELSE <<>>]
    /\ UNCHANGED <<text, papers, selectionVars, searchQuery, isAddModalOpen,
                   modalVars, calls, nextId, now, topicsMemo, subTopicsMemo,
                   filteredPapersMemo>>

NextParse ==
    \/ \E tok \in TextTokens : ReceiveToken(tok)
    \/ RunParseResponse

SpecParse == InitParse /\ [][NextParse]_vars

(***************************************************************************)
(* Properties.                                                             *)
(***************************************************************************)
IsSubmitCheck ==
    lastOp.op = "handleSubmit" /\ lastOp.outcome \in {"added", "duplicate"}

\* C1: after handleTopicSelection(t), for any t including null and from any
\* selection, selectedTopic = t and selectedSubTopic and selectedTag are
\* null; after handleTagClick(g), selectedTag = g and selectedTopic and
\* selectedSubTopic are null.
C1_CascadingClear ==
    /\ lastOp.op = "handleTopicSelection" =>
          /\ selectedTopic = lastOp.arg
          /\ selectedSubTopic = NULL
          /\ selectedTag = NULL
    /\ lastOp.op = "handleTagClick" =>
          /\ selectedTag = lastOp.arg
          /\ selectedTopic = NULL
          /\ selectedSubTopic = NULL

\* A different topic was selected while a sub-topic was selected.
C1_Witness ==
    /\ lastOp.op = "handleTopicSelection"
    /\ lastOp.subTopicBefore # NULL
    /\ lastOp.arg # NULL
    /\ lastOp.arg # lastOp.topicBefore

\* C2: at most one analysis call started by handleSubmit is outstanding.
C2_AtMostOneOutstandingCall == Len(calls) <= 1

\* C3: a submission whose modal was dismissed while its analysis call was
\* outstanding leaves the collection as it was when the call resolves.
C3_NoInsertAfterDismissal ==
    (IsSubmitCheck /\ lastOp.abandoned) => papers = lastOp.before

\* C4: every paper of the collection has a non-empty title, a non-empty
\* topic, an authors list and a tags list.
C4_PaperPresence ==
    \A i \in DOMAIN papers :
        /\ Truthy(papers[i], "title")
        /\ Truthy(papers[i], "topic")
        /\ Has(papers[i], "authors")
        /\ Has(papers[i], "tags")

\* The extracted string of t parses and the parsed value has no title.
ParsesWithoutTitle(t) ==
    LET r == JSONparse(jsonString(t))
    IN  r.ok /\ ~(r.kind = "object" /\ Truthy(r.value, "title"))

\* C5: when the extracted string parses and the parsed value has no title,
\* parseResponse fails with the missing-title failure, which is not the
\* failure of a string that is not valid JSON.
C5_MissingTitleReported ==
    (parsed # NotParsed /\ text # <<>> /\ ParsesWithoutTitle(text)) =>
        /\ ~parsed.ok
        /\ parsed.message = MsgNoTitle
        /\ parsed.message # MsgParseFailed

\* The title s without the white space around it, in lower case.
TitleKey(s) ==
    LET inked == {i \in DOMAIN s : s[i] # " "}
        lo == CHOOSE i \in inked : \A j \in inked : i <= j
        hi == CHOOSE i \in inked : \A j \in inked : i >= j
    IN  IF inked = {} THEN <<>>
        ELSE [i \in 1..(hi - lo + 1) |-> LowerChar(s[lo + i - 1])]

Collides(ps, title) ==
    \E i \in DOMAIN ps : TitleKey(ps[i].title) = TitleKey(title)

\* C6: at the duplicate check the candidate is rejected with the "already
\* exists" failure exactly when a paper of the collection it is checked
\* against has the same title up to case and surrounding white space;
\* otherwise it is passed to onAdd.
C6_DuplicateRule ==
    IsSubmitCheck =>
        IF Collides(lastOp.existingPapers, lastOp.title)
        THEN /\ lastOp.outcome = "duplicate"
             /\ error = MsgDuplicate
             /\ papers = lastOp.before
        ELSE /\ lastOp.outcome = "added"
             /\ error # MsgDuplicate
             /\ Len(papers) = Len(lastOp.before) + 1
             /\ papers[1].title = lastOp.title
             /\ Tail(papers) = lastOp.before

\* A candidate was rejected for a stored title that differs from it in
\* case or white space.
C6_Witness ==
    /\ IsSubmitCheck
    /\ lastOp.outcome = "duplicate"
    /\ \A i \in DOMAIN lastOp.existingPapers :
          lastOp.existingPapers[i].title # lastOp.title

\* C7: the papers the candidate title is compared with are the collection
\* as it is when the resolved metadata is about to be inserted.
C7_CheckedAgainstLiveCollection ==
    IsSubmitCheck => lastOp.existingPapers = lastOp.before

\* C8: a selected sub-topic implies a selected topic, and a selected tag
\* implies that neither a topic nor a sub-topic is selected.
C8_WellFormedSelection ==
    /\ selectedSubTopic # NULL => selectedTopic # NULL
    /\ selectedTag # NULL => (selectedTopic = NULL /\ selectedSubTopic = NULL)

\* A tag was clicked while a topic and a sub-topic were selected.
C8_Witness ==
    /\ lastOp.op = "handleTagClick"
    /\ lastOp.subTopicBefore # NULL
    /\ lastOp.topicBefore # NULL
    /\ selectedTag # NULL

\* C9: a selected sub-topic is the sub-topic of some paper of the selected
\* topic (a key of the sub-topic counts).
C9_SubTopicOfSelectedTopic ==
    selectedSubTopic # NULL =>
        \E i \in DOMAIN papers :
            /\ Has(papers[i], "topic") /\ papers[i].topic = selectedTopic
            /\ Has(papers[i], "subTopic") /\ papers[i].subTopic = selectedSubTopic

UniqueIds(ps) == \A i, j \in DOMAIN ps : ps[i].id = ps[j].id => i = j

C11_ViewsFollowInputs ==
    Alive =>
        /\ topicsMemo = topics(papers)
        /\ subTopicsMemo = subTopics(papers, selectedTopic)
        /\ filteredPapersMemo =
              filteredPapers(papers, selectedTopic, selectedSubTopic,
                             selectedTag, searchQuery)

\* A topic with sub-topics was selected without a change of the collection,
\* and the sub-topic counts and the filtered list have followed it.
C11_Witness ==
    /\ lastOp.op = "handleTopicSelection"
    /\ lastOp.arg # NULL
    /\ lastOp.topicBefore # lastOp.arg
    /\ subTopicsMemo # <<>>
    /\ Len(filteredPapersMemo) < Len(papers)

\* q occurs in s when the case of letters is ignored.
ContainsIgnoringCase(s, q) ==
    \E i \in 0..(Len(s) - Len(q)) :
        \A k \in 1..Len(q) : LowerChar(s[i + k]) = LowerChar(q[k])

\* The search text q is empty or occurs, ignoring case, in the title, an
\* author, a tag, the topic or the sub-topic (when there is one) of p.
SearchHit(p, q) ==
    \/ q = EMPTY
    \/ Has(p, "title") /\ ContainsIgnoringCase(p.title, q)
    \/ Has(p, "authors") /\ \E i \in DOMAIN p.authors : ContainsIgnoringCase(p.authors[i], q)
    \/ Has(p, "tags") /\ \E i \in DOMAIN p.tags : ContainsIgnoringCase(p.tags[i], q)
    \/ Has(p, "topic") /\ ContainsIgnoringCase(p.topic, q)
    \/ Has(p, "subTopic") /\ p.subTopic # EMPTY /\ ContainsIgnoringCase(p.subTopic, q)

HasTag(p, g) == Has(p, "tags") /\ \E i \in DOMAIN p.tags : p.tags[i] = g

\* The ids of the papers of a list.
IdsOf(ps) == {ps[i].id : i \in DOMAIN ps}

\* C12: after handleTagClick(g), from any selection and search text, the
\* filtered result holds exactly the papers whose tags contain g.
C12_TagView ==
    lastOp.op = "handleTagClick" =>
        IdsOf(filteredPapersMemo) =
            {papers[i].id : i \in {j \in DOMAIN papers : HasTag(papers[j], lastOp.arg)}}

\* p satisfies every active axis of the selection.
Satisfies(p, topic, sub, tag, q) ==
    /\ topic # NULL => (Has(p, "topic") /\ p.topic = topic)
    /\ sub # NULL => (Has(p, "subTopic") /\ p.subTopic = sub)
    /\ tag # NULL => HasTag(p, tag)
    /\ SearchHit(p, q)

\* C13: for every collection and selection the filter yields a result, a
\* paper is in it exactly when it satisfies every active axis, and no paper
\* is in it twice.
C13_FilterMembership ==
    lastOp.op = "render" =>
        /\ ~lastOp.threw
        /\ IdsOf(filteredPapersMemo) =
              {papers[i].id : i \in {j \in DOMAIN papers :
                  Satisfies(papers[j], selectedTopic, selectedSubTopic,
                            selectedTag, searchQuery)}}
        /\ Cardinality(IdsOf(filteredPapersMemo)) = Len(filteredPapersMemo)

\* The place in the collection of the paper with this id.
PlaceOf(id) == CHOOSE k \in DOMAIN papers : papers[k].id = id

\* C14: the filtered result is in the order of non-increasing addedAt, and
\* papers of the same addedAt are in the order they have in the collection.
C14_FilterOrdering ==
    (lastOp.op = "render" /\ ~lastOp.threw) =>
        \A i, j \in DOMAIN filteredPapersMemo :
            i < j =>
                /\ filteredPapersMemo[i].addedAt >= filteredPapersMemo[j].addedAt
                /\ filteredPapersMemo[i].addedAt = filteredPapersMemo[j].addedAt
                      => PlaceOf(filteredPapersMemo[i].id)
                            < PlaceOf(filteredPapersMemo[j].id)

\* The result holds two papers of one addedAt behind a newer paper that
\* the collection holds after them.
C14_Witness ==
    /\ lastOp.op = "render" /\ ~lastOp.threw
    /\ Len(filteredPapersMemo) = 3
    /\ filteredPapersMemo[1].id = 3
    /\ filteredPapersMemo[2].addedAt = filteredPapersMemo[3].addedAt
    /\ filteredPapersMemo[1].addedAt > filteredPapersMemo[2].addedAt

\* The papers of topic t whose sub-topic is s.
WithSubTopic(t, s) ==
    {i \in DOMAIN papers :
        /\ Has(papers[i], "topic") /\ papers[i].topic = t
        /\ Has(papers[i], "subTopic") /\ papers[i].subTopic = s}

\* C16: without a selected topic the sub-topic counts are empty; with one,
\* a label is a key exactly when a paper of the selected topic has it as
\* its sub-topic, and its value is the number of these papers.
C16_SubTopicCounts ==
    lastOp.op = "render" =>
        IF selectedTopic = NULL THEN DOMAIN subTopicsMemo = {}
        ELSE /\ DOMAIN subTopicsMemo \subseteq Labels
             /\ \A s \in Labels :
                   /\ s \in DOMAIN subTopicsMemo
                         <=> Cardinality(WithSubTopic(selectedTopic, s)) >= 1
                   /\ s \in DOMAIN subTopicsMemo
                         => subTopicsMemo[s] = Cardinality(WithSubTopic(selectedTopic, s))

\* A topic is selected, two of its papers share a sub-topic, and a paper of
\* another topic has that sub-topic too.
C16_Witness ==
    /\ lastOp.op = "render"
    /\ selectedTopic # NULL
    /\ \E s \in DOMAIN subTopicsMemo :
          /\ subTopicsMemo[s] = 2
          /\ \E i \in DOMAIN papers :
                /\ Has(papers[i], "topic") /\ papers[i].topic # selectedTopic
                /\ Has(papers[i], "subTopic") /\ papers[i].subTopic = s

\* The sum of the values of a mapping.
RECURSIVE SumOf(_)
SumOf(m) ==
    IF DOMAIN m = {} THEN 0
    ELSE LET k == CHOOSE x \in DOMAIN m : TRUE
         IN  m[k] + SumOf([x \in DOMAIN m \ {k} |-> m[x]])

\* The papers whose topic is t.
WithTopic(t) ==
    {i \in DOMAIN papers : Has(papers[i], "topic") /\ papers[i].topic = t}

\* C15: the topic counts have a key exactly for the topics papers have,
\* each with the number of its papers, none of them zero, and the counts
\* add up to the number of papers of the collection.
C15_TopicCounts ==
    Alive =>
        /\ \A t \in DOMAIN topicsMemo :
              topicsMemo[t] >= 1 /\ topicsMemo[t] = Cardinality(WithTopic(t))
        /\ \A i \in DOMAIN papers :
              Has(papers[i], "topic") /\ papers[i].topic \in DOMAIN topicsMemo
        /\ SumOf(topicsMemo) = Len(papers)

\* s from its first to its last token that is not white space.
Stripped(s) ==
    LET inked == {i \in DOMAIN s : s[i] # Space}
        lo == CHOOSE i \in inked : \A j \in inked : i <= j
        hi == CHOOSE i \in inked : \A j \in inked : i >= j
    IN  IF inked = {} THEN <<>> ELSE SubSeq(s, lo, hi)

\* The fenced blocks tagged as JSON: an opening fence with the tag and the
\* next fence after it.
JsonBlocks(t) ==
    {b \in (DOMAIN t) \X (DOMAIN t) :
        /\ b[1] < b[2]
        /\ t[b[1]] = FenceJson
        /\ t[b[2]] \in {Fence, FenceJson}
        /\ \A k \in (b[1] + 1)..(b[2] - 1) : t[k] \notin {Fence, FenceJson}}

FirstJsonBlock(t) ==
    CHOOSE b \in JsonBlocks(t) : \A c \in JsonBlocks(t) : b[1] <= c[1]

\* The content of the first JSON block, without the white space next to
\* its fences.
BlockContent(t) ==
    Stripped(SubSeq(t, FirstJsonBlock(t)[1] + 1, FirstJsonBlock(t)[2] - 1))

\* An opening brace with a closing brace somewhere after it.
BracePairs(t) ==
    {b \in (DOMAIN t) \X (DOMAIN t) :
        b[1] < b[2] /\ t[b[1]] = LBrace /\ t[b[2]] = RBrace}

\* The three tiers of the extraction, the first that applies.
Tiered(t) ==
    IF JsonBlocks(t) # {} THEN BlockContent(t)
    ELSE IF \E i, j \in DOMAIN t :
                /\ t[i] = LBrace /\ \A k \in 1..(i - 1) : t[k] # LBrace
                /\ t[j] = RBrace /\ \A k \in (j + 1)..Len(t) : t[k] # RBrace
                /\ i < j
    THEN LET i == CHOOSE x \in DOMAIN t :
                      t[x] = LBrace /\ \A k \in 1..(x - 1) : t[k] # LBrace
             j == CHOOSE x \in DOMAIN t :
                      t[x] = RBrace /\ \A k \in (x + 1)..Len(t) : t[k] # RBrace
         IN  SubSeq(t, i, j)
    ELSE Stripped(t)

\* The well-formed JSON objects in t: a brace pair with nothing but members
\* and white space between.
ObjectsIn(t) ==
    {b \in BracePairs(t) :
        \A k \in (b[1] + 1)..(b[2] - 1) : t[k] \in MemberTokens \cup {Space}}

TheObject(t) == CHOOSE b \in ObjectsIn(t) : TRUE

\* The record the one object of t denotes.
TheRecord(t) ==
    ObjectOf(Significant(SubSeq(t, TheObject(t)[1] + 1, TheObject(t)[2] - 1)))

\* t holds exactly one well-formed object, and it has a non-empty title.
HoldsOneTitledObject(t) ==
    /\ Cardinality(ObjectsIn(t)) = 1
    /\ Truthy(TheRecord(t), "title")

\* C17 as stated: from every text that holds exactly one well-formed JSON
\* object with a non-empty title, parseResponse returns that object.
C17_RoundTripAnyText ==
    (lastOp.op = "parseResponse" /\ HoldsOneTitledObject(text)) =>
        (parsed.ok /\ parsed.data = TheRecord(text))

\* The object of t is where the extraction looks: it is the content of the
\* first JSON block, or there is no such block and no opening brace before
\* the object and no closing brace after it.
ObjectIsFound(t) ==
    IF JsonBlocks(t) # {}
    THEN BlockContent(t) = SubSeq(t, TheObject(t)[1], TheObject(t)[2])
    ELSE /\ \A k \in 1..(TheObject(t)[1] - 1) : t[k] # LBrace
         /\ \A k \in (TheObject(t)[2] + 1)..Len(t) : t[k] # RBrace

\* C17 amended: from every text that holds exactly one well-formed JSON
\* object with a non-empty title, as the content of its first JSON block or,
\* without such a block, with no opening brace before it and no closing
\* brace after it, parseResponse returns that object with every field.
C17_RoundTrip ==
    (lastOp.op = "parseResponse" /\ HoldsOneTitledObject(text)
        /\ ObjectIsFound(text)) =>
        (parsed.ok /\ parsed.data = TheRecord(text))

\* An object with an optional field was recovered from prose around it.
C17_Witness ==
    /\ lastOp.op = "parseResponse"
    /\ HoldsOneTitledObject(text) /\ ObjectIsFound(text)
    /\ JsonBlocks(text) = {}
    /\ text[1] = Prose
    /\ parsed.ok /\ Has(parsed.data, "subTopic")

\* C18: the string handed to the JSON parser is the content of the first
\* JSON block if there is one, otherwise the text from the first opening to
\* the last closing brace if that one follows, otherwise the trimmed text.
C18_ExtractionTiers ==
    (lastOp.op = "parseResponse" /\ text # <<>>) =>
        (lastOp.extracted /\ lastOp.jsonString = Tiered(text))

\* A text with braces before a JSON block: the block was taken.
C18_Witness ==
    /\ lastOp.op = "parseResponse"
    /\ JsonBlocks(text) # {}
    /\ BracePairs(text) # {}
    /\ \E b \in BracePairs(text) : b[2] < FirstJsonBlock(text)[1]
    /\ lastOp.jsonString = BlockContent(text)

\* The parse failure: the extracted string is not valid JSON.
FailsToParse == ~parsed.ok /\ parsed.message = MsgParseFailed

\* C19 as stated: for a text without a brace pair the extracted string is
\* the trimmed text, and parseResponse fails with the parse failure unless
\* the trimmed text is valid JSON.
C19_NoBracesAnyText ==
    (lastOp.op = "parseResponse" /\ BracePairs(text) = {}) =>
        /\ lastOp.jsonString = Stripped(text)
        /\ ~JSONparse(Stripped(text)).ok => FailsToParse

\* C19 amended: for a non-empty text without a brace pair and without a
\* JSON block the extracted string is the trimmed text, and parseResponse fails with
\* the parse failure unless the trimmed text is valid JSON.
C19_NoBraces ==
    (lastOp.op = "parseResponse" /\ text # <<>> /\ BracePairs(text) = {}
        /\ JsonBlocks(text) = {}) =>
        /\ lastOp.jsonString = Stripped(text)
        /\ ~JSONparse(Stripped(text)).ok => FailsToParse

\* A text with a closing brace before its opening brace, between white
\* space, failed to parse.
C19_Witness ==
    /\ lastOp.op = "parseResponse"
    /\ BracePairs(text) = {} /\ JsonBlocks(text) = {}
    /\ \E i, j \in DOMAIN text : i < j /\ text[i] = RBrace /\ text[j] = LBrace
    /\ text[1] = Space
    /\ FailsToParse

FailedOutcomes == {"rejected", "failed", "duplicate"}

\* C21: a step in which a submission ends in a failure (an input that is
\* rejected, a failed call, a response that does not parse or has no title,
\* or a duplicate title) leaves the collection, the modal's being open and
\* the input text as they were.
C21_FailureIsNonDestructive ==
    [][(lastOp'.op = "handleSubmit" /\ lastOp'.outcome \in FailedOutcomes) =>
          /\ papers' = papers
          /\ isAddModalOpen' = isAddModalOpen
          /\ inputValue' = inputValue]_vars

\* A submission was rejected as a duplicate: the modal is open and still
\* holds the input.
C21_Witness ==
    /\ lastOp.op = "handleSubmit"
    /\ lastOp.outcome = "duplicate"
    /\ error = MsgDuplicate
    /\ isAddModalOpen
    /\ inputValue # EMPTY
    /\ papers # <<>>

\* C22: the failure a submission stores is shown as a duplicate (the banner
\* in the amber style of "already exists") exactly when the submission was
\* rejected by the duplicate check.
C22_DuplicateDistinguishable ==
    (lastOp.op = "handleSubmit" /\ lastOp.outcome \in FailedOutcomes) =>
        (bannerStyle = "amber" <=> lastOp.outcome = "duplicate")

\* The kind of an outcome of the service call: the call failed, it was
\* answered without text because the answer was blocked, it was answered
\* without text otherwise, or it was answered with a text.
KindOf(reply) ==
    IF reply.rejects THEN "service failure"
    ELSE IF reply.text # <<>> THEN "answered"
    ELSE IF reply.finishReason \in {"none", "STOP"} THEN "empty response"
    ELSE "blocked"

FailureKinds == {"service failure", "empty response", "blocked"}

\* C23: on the URL path and on the document path a failed call, an empty
\* response and a blocked response are each thrown to the caller, none
\* returned as a record, and two of different kinds carry different reason
\* strings.
C23_FailureReasonsDistinct ==
    lastOp.op = "settled" =>
        /\ KindOf(lastOp.first) \in FailureKinds =>
              (~lastOp.firstResult.ok /\ lastOp.firstResult.message # NoMessage)
        /\ ( /\ KindOf(lastOp.first) \in FailureKinds
             /\ KindOf(lastOp.second) \in FailureKinds
             /\ KindOf(lastOp.first) # KindOf(lastOp.second) ) =>
              lastOp.firstResult.message # lastOp.secondResult.message

\* On the document path a blocked response and an empty response were
\* both thrown.
C23_Witness ==
    /\ lastOp.op = "settled"
    /\ lastOp.path = "pdf"
    /\ KindOf(lastOp.first) = "blocked"
    /\ KindOf(lastOp.second) = "empty response"
    /\ ~lastOp.firstResult.ok
    /\ ~lastOp.secondResult.ok

\* The fields of a record other than topic and tags.
OtherFields(p) == DOMAIN p \ {"topic", "tags"}

\* A record lacks a topic: it has no topic field, or an empty one.
LacksTopic(p) == "topic" \notin DOMAIN p \/ p.topic = <<>>

\* C24: after the load every stored record that lacks a topic has its first
\* tag for topic if it has a tag, else "Biology"; every stored record
\* without tags has the empty list for tags; all other fields of every
\* record, and the order of the records, are as stored.
C24_LegacyUpgrade ==
    lastOp.op = "load" =>
        /\ Len(papers) = Len(lastOp.saved)
        /\ \A i \in DOMAIN papers :
              LET old == lastOp.saved[i]
                  new == papers[i]
              IN  /\ new.id = old.id
                  /\ LacksTopic(old) =>
                        new.topic = IF "tags" \in DOMAIN old /\ old.tags # <<>>
                                    THEN Head(old.tags)
                                    ELSE <<"B", "i", "o", "l", "o", "g", "y">>
                  /\ "tags" \notin DOMAIN old => new.tags = <<>>
                  /\ OtherFields(new) = OtherFields(old)
                  /\ \A k \in OtherFields(old) : new[k] = old[k]

\* Two legacy records were loaded, the first with tags and the second
\* without: the first got its first tag, the second the fallback.
C24_Witness ==
    /\ lastOp.op = "load"
    /\ Len(papers) = 2
    /\ "topic" \notin DOMAIN lastOp.saved[1]
    /\ "tags" \in DOMAIN lastOp.saved[1] /\ Len(lastOp.saved[1].tags) = 2
    /\ "topic" \notin DOMAIN lastOp.saved[2]
    /\ "tags" \notin DOMAIN lastOp.saved[2]
    /\ papers[1].topic = <<"g">>
    /\ papers[2].topic = <<"B", "i", "o", "l", "o", "g", "y">>
    /\ papers[2].tags = <<>>

\* C25: loading what a load produced gives the same collection again, and
\* a stored record that has a topic and a tags list is loaded with every
\* field as stored.
C25_UpgradeIdempotent ==
    /\ lastOp.op = "reload" => papers = lastOp.once
    /\ lastOp.op = "load" =>
          \A i \in DOMAIN lastOp.saved :
              (~LacksTopic(lastOp.saved[i]) /\ "tags" \in DOMAIN lastOp.saved[i])
                  => papers[i] = lastOp.saved[i]

\* A collection of a legacy record and a record of the current shape with
\* tags was loaded a second time.
C25_Witness ==
    /\ lastOp.op = "reload"
    /\ Len(papers) = 2
    /\ "topic" \notin DOMAIN lastOp.saved[1]
    /\ "topic" \in DOMAIN lastOp.saved[2]
    /\ lastOp.saved[2].topic = <<"T">>
    /\ "tags" \in DOMAIN lastOp.saved[2] /\ lastOp.saved[2].tags # <<>>
    /\ papers[2] = lastOp.saved[2]

\* C26: no two papers of the collection have titles that are equal after
\* lower-casing and trimming.
C26_TitlesUnique ==
    \A i, j \in DOMAIN papers :
        i # j => TitleKey(papers[i].title) # TitleKey(papers[j].title)

\* C27: the busy flag is true in every state in which an analysis call
\* started by handleSubmit is outstanding, and every submission that
\* started a call is followed by a state in which the busy flag is false.
C27_BusyUntilCallEnds ==
    /\ [](calls # <<>> => loading)
    /\ ((lastOp.op = "handleSubmit" /\ lastOp.outcome = "awaiting") ~> ~loading)

====
